---- MODULE Spec2Model ----
(***************************************************************************)
(* Model of the multi-agent blog generation pipeline:                      *)
(*   base_agent.py              AgentContext, BaseAgent                    *)
(*   research_agent.py          ResearchAgent                              *)
(*   content_planning_agent.py  ContentPlanningAgent                       *)
(*   content_generation_agent.py ContentGenerationAgent                    *)
(*   seo_optimization_agent.py  SEOOptimizationAgent                       *)
(*   orchestrator.py            BlogGenerationOrchestrator                 *)
(*                                                                         *)
(* Python strings that are formatted, lower-cased or split are sequences   *)
(* of glyphs: a glyph is " ", "\n" or a run of non-whitespace characters.  *)
(* Strings that are only passed around (sources, keywords, agent names)    *)
(* are atoms.  Fractions are integers in hundredths (0.02 is 2).           *)
(***************************************************************************)
EXTENDS Integers, Sequences, FiniteSets, TLC

VARIABLES
    ctx,            \* the AgentContext all four agents and the orchestrator share
    pc,             \* position of generate_blog_post
    topic_arg,      \* generate_blog_post: its `topic` argument
    topic_candidates, \* _find_trending_topics: the list it chose from
    query,          \* ResearchAgent.execute: its `query` local
    research_data,  \* generate_blog_post: local research_data
    outline,        \* generate_blog_post: local outline
    blog_post,      \* generate_blog_post: local blog_post
    optimized_post, \* generate_blog_post: local optimized_post
    result,         \* value generate_blog_post returned to its caller
    error,          \* exception generate_blog_post raised to its caller
    log,            \* lines printed by BaseAgent.log since the current call began
    status,         \* value returned by get_generation_status, if it was the last operation
    kw,             \* keyword arguments of the last direct update_context call
    got,            \* value returned by the last direct get_context_value call
    op,             \* last direct operation on the context
    kept,           \* what a caller has kept of an earlier completed call
    current,        \* the orchestrator whose coroutine the event loop is running
    parked,         \* the frame of the other orchestrator's suspended coroutine
    contexts        \* the AgentContext objects of the orchestrators not running

vars == <<ctx, pc, topic_arg, topic_candidates, query, research_data, outline,
          blog_post, optimized_post,
          result, error, log, status, kw, got, op, kept, current, parked, contexts>>

pipelineVars == <<pc, topic_arg, topic_candidates, query, research_data, outline,
                  blog_post, optimized_post,
                  result, error, log, status>>

directVars == <<kw, got, op>>

callerVars == <<kept, current, parked, contexts>>

(***************************************************************************)
(* Bounds                                                                  *)
(***************************************************************************)
MaxFindings == 2
MaxSources == 2
MaxKeywords == 2
MaxKwargs == 2
MaxCandidates == 3

(***************************************************************************)
(* Python values                                                           *)
(***************************************************************************)
None == [t |-> "None", v |-> 0]

Dict(d) == [t |-> "dict", v |-> d]

Scalar(n) == [t |-> "scalar", v |-> n]

EmptyDict == [k \in {} |-> None]

\* d[key] = value on a dict
SetItem(d, key, value) ==
    [k \in DOMAIN d \cup {key} |-> IF k = key THEN value ELSE d[k]]

\* d.get(key)
DictGet(d, key) == IF key \in DOMAIN d THEN d[key] ELSE None

\* Optional[str]
NoStr == [isNone |-> TRUE, s |-> <<>>]

SomeStr(s) == [isNone |-> FALSE, s |-> s]

\* `not query` for an Optional[str]: None and "" are falsy
Falsy(q) == q.isNone \/ Len(q.s) = 0

\* a local or return slot that holds nothing
Unset == [unset |-> TRUE]

IsSet(slot) == "unset" \notin DOMAIN slot

RECURSIVE SeqsUpTo(_, _)
SeqsUpTo(S, n) ==
    IF n = 0 THEN {<<>>}
    ELSE LET shorter == SeqsUpTo(S, n - 1)
         IN shorter \cup {Append(s, x) : s \in {t \in shorter : Len(t) = n - 1}, x \in S}

(***************************************************************************)
(* base_agent.py                                                           *)
(***************************************************************************)
\* the dataclass fields of AgentContext
ContextFields == {"topic", "keywords", "target_word_count", "timestamp", "metadata"}

\* timestamp: datetime = datetime.now() is evaluated once, when the class is defined
ImportTime == 0

AgentContext(topic, kws, target_word_count) ==
    [topic |-> topic, keywords |-> kws, target_word_count |-> target_word_count,
     timestamp |-> ImportTime, metadata |-> None]

hasattr(key) == key \in ContextFields

\* variant: an existing metadata key keeps its value (setdefault for assignment)
update_entry_setdefault(context, key, value) ==
    IF hasattr(key) THEN [context EXCEPT ![key] = value]
    ELSE IF context.metadata.t = "None"
         THEN [context EXCEPT !.metadata = Dict(SetItem(EmptyDict, key, value))]
         ELSE IF key \in DOMAIN context.metadata.v
              THEN context
              ELSE [context EXCEPT !.metadata = Dict(SetItem(context.metadata.v, key, value))]

\* one iteration of the loop of update_context
update_entry(context, key, value) ==
    IF hasattr(key) THEN [context EXCEPT ![key] = value]
    ELSE IF context.metadata.t = "None"
         THEN [context EXCEPT !.metadata = Dict(SetItem(EmptyDict, key, value))]
         ELSE [context EXCEPT !.metadata = Dict(SetItem(context.metadata.v, key, value))]

\* kwargs is the ordered sequence of <<key, value>> pairs of **kwargs
RECURSIVE update_context(_, _)
update_context(context, kwargs) ==
    IF Len(kwargs) = 0 THEN context
    ELSE update_context(update_entry(context, kwargs[1][1], kwargs[1][2]), Tail(kwargs))

get_context_value(context, key) ==
    IF hasattr(key) THEN context[key]
    ELSE IF context.metadata.t = "dict" /\ DOMAIN context.metadata.v # {}
         THEN DictGet(context.metadata.v, key)
         ELSE None

(***************************************************************************)
(* Strings as glyph sequences                                              *)
(***************************************************************************)
SP == " "

NL == "\n"

IsSpace(g) == g \in {SP, NL}

\* words separated by single spaces
RECURSIVE Words(_)
Words(ws) ==
    IF Len(ws) = 0 THEN <<>>
    ELSE IF Len(ws) = 1 THEN <<ws[1]>>
    ELSE <<ws[1], SP>> \o Words(Tail(ws))

\* sep.join(parts)
RECURSIVE Join(_, _)
Join(sep, parts) ==
    IF Len(parts) = 0 THEN <<>>
    ELSE IF Len(parts) = 1 THEN parts[1]
    ELSE parts[1] \o sep \o Join(sep, Tail(parts))

\* str.lower() on one glyph
LowerGlyph(g) ==
    CASE g = "Increased" -> "increased"
      [] g = "Importance" -> "importance"
      [] g = "Technology" -> "technology"
      [] g = "Communication" -> "communication"
      [] g = "Context" -> "context"
      [] g = "Problem" -> "problem"
      [] g = "Article" -> "article"
      [] g = "Summary" -> "summary"
      [] g = "Future" -> "future"
      [] g = "Call" -> "call"
      [] g = "Current" -> "current"
      [] g = "Trends" -> "trends"
      [] g = "Best" -> "best"
      [] g = "Practices" -> "practices"
      [] OTHER -> g

Lower(s) == [i \in 1..Len(s) |-> LowerGlyph(s[i])]

\* len(s.split()): the number of maximal runs of non-whitespace glyphs
\* variant: s.split(" "), which cuts at single spaces only
SplitCountOnSpaces(s) ==
    Cardinality({i \in 1..Len(s) : s[i] = SP}) + 1

SplitCount(s) ==
    Cardinality({i \in 1..Len(s) : ~IsSpace(s[i]) /\ (i = 1 \/ IsSpace(s[i - 1]))})

\* list[:n]
Take(s, n) == SubSeq(s, 1, IF Len(s) < n THEN Len(s) ELSE n)

(***************************************************************************)
(* research_agent.py                                                       *)
(***************************************************************************)
\* the candidate list of _find_trending_topics; relevance_score in hundredths
trending_topics ==
    << [title |-> Words(<<"Remote", "Work", "Best", "Practices", "2024">>), relevance_score |-> 95],
       [title |-> Words(<<"AI", "in", "HR:", "Transforming", "Recruitment">>), relevance_score |-> 92],
       [title |-> Words(<<"Employee", "Well-being", "Strategies">>), relevance_score |-> 88] >>

\* max(candidates, key=relevance_score): the running maximum is replaced only
\* by an item whose key is greater
RECURSIVE MaxFrom(_, _, _)
MaxFrom(items, i, best) ==
    IF i > Len(items) THEN best
    ELSE MaxFrom(items, i + 1,
                 IF items[i].relevance_score > best.relevance_score THEN items[i] ELSE best)

\* variant: the running maximum is also replaced by an item with an equal key
RECURSIVE MaxFromLast(_, _, _)
MaxFromLast(items, i, best) ==
    IF i > Len(items) THEN best
    ELSE MaxFromLast(items, i + 1,
                     IF items[i].relevance_score >= best.relevance_score THEN items[i] ELSE best)

PyMaxLast(items) == MaxFromLast(items, 2, items[1])

PyMax(items) == MaxFrom(items, 2, items[1])

find_trending_topics == PyMax(trending_topics)

\* relevance scores a scraped candidate may carry
CandidateScores == {92, 95}

\* lists the scraping that is to replace the placeholder can bring back:
\* one to MaxCandidates candidates, the placeholder's first two titles, any
\* scores
CandidateLists ==
    LET entries == {[title |-> trending_topics[i].title, relevance_score |-> r] :
                        i \in 1..2, r \in CandidateScores}
    IN {trending_topics} \cup (SeqsUpTo(entries, MaxCandidates) \ {<<>>})

\* the lists of the placeholder body of _gather_information
related_topics == <<"Future of Remote Work", "Remote Team Management", "Virtual Collaboration Tools">>

key_points ==
    << Words(<<"Increased", "productivity", "in", "remote", "settings">>),
       Words(<<"Importance", "of", "work-life", "balance">>),
       Words(<<"Technology", "requirements", "for", "remote", "work">>),
       Words(<<"Communication", "challenges", "and", "solutions">>),
       Words(<<"Best", "practices", "for", "virtual", "team", "building">>) >>

sources ==
    <<"Harvard Business Review", "Society for Human Resource Management",
      "LinkedIn Workplace Research">>

keywords ==
    <<"remote work", "virtual teams", "work from home", "remote collaboration",
      "digital workplace">>

gather_information(points, srcs, kws) ==
    [related_topics |-> related_topics, key_points |-> points,
     sources |-> srcs, keywords |-> kws]

\* what the scraping that is to replace the placeholder can bring back
Findings == {key_points[1], key_points[2]}

Sources == {sources[1], sources[3]}

Keywords == {keywords[1], keywords[2]}

\* the placeholder's answer, and every answer that differs from it in one list
GatherOutcomes ==
    {gather_information(key_points, sources, keywords)}
        \cup {gather_information(f, sources, keywords) : f \in SeqsUpTo(Findings, MaxFindings)}
        \cup {gather_information(key_points, s, keywords) : s \in SeqsUpTo(Sources, MaxSources)}
        \cup {gather_information(key_points, sources, k) : k \in SeqsUpTo(Keywords, MaxKeywords)}

\* the `result` dict ResearchAgent.execute builds from the gathered data
ResearchResult(q, gathered) ==
    [trending_topics |-> gathered.related_topics,
     selected_topic |-> q,
     key_findings |-> gathered.key_points,
     sources |-> gathered.sources,
     keywords |-> gathered.keywords]

\* variant: the closing update_context call also writes the topic
ResearchContextUpdateWithTopic(res) ==
    << <<"topic", res.selected_topic>>,
       <<"keywords", res.keywords>>,
       <<"metadata", Dict([sources |-> res.sources, key_findings |-> res.key_findings])>> >>

\* the keyword arguments of ResearchAgent.execute's closing update_context call
ResearchContextUpdate(res) ==
    << <<"keywords", res.keywords>>,
       <<"metadata", Dict([sources |-> res.sources, key_findings |-> res.key_findings])>> >>

(***************************************************************************)
(* content_planning_agent.py                                               *)
(***************************************************************************)
\* variant: the title is made from the context's topic when it has one
generate_title_from_context(topic) ==
    Words(<<"The", "Complete", "Guide", "to">>) \o <<SP>>
        \o (IF Len(ctx.topic) > 0 THEN ctx.topic ELSE topic)
        \o <<":", SP>> \o Words(<<"Strategies", "for", "2024">>)

generate_title(topic) ==
    Words(<<"The", "Complete", "Guide", "to">>) \o <<SP>> \o topic
        \o <<":", SP>> \o Words(<<"Strategies", "for", "2024">>)

\* variant: the description names the context's topic when it has one
generate_meta_description_from_context(topic, points) ==
    Words(<<"Discover", "the", "latest", "insights", "and", "best", "practices", "for">>)
        \o <<SP>> \o (IF Len(ctx.topic) > 0 THEN ctx.topic ELSE topic) \o <<".", SP>>
        \o Words(<<"Learn", "expert", "strategies", "for">>) \o <<SP>>
        \o Lower(Join(<<",", SP>>, Take(points, 2))) \o <<SP>>
        \o Words(<<"and", "more", "in", "this", "comprehensive", "guide.">>)

generate_meta_description(topic, points) ==
    Words(<<"Discover", "the", "latest", "insights", "and", "best", "practices", "for">>)
        \o <<SP>> \o topic \o <<".", SP>>
        \o Words(<<"Learn", "expert", "strategies", "for">>) \o <<SP>>
        \o Lower(Join(<<",", SP>>, Take(points, 2))) \o <<SP>>
        \o Words(<<"and", "more", "in", "this", "comprehensive", "guide.">>)

Introduction ==
    [title |-> <<"Introduction">>, type |-> "section", target_word_count |-> 200,
     key_points |-> <<Words(<<"Context", "setting">>), Words(<<"Problem", "statement">>),
                      Words(<<"Article", "overview">>)>>]

Conclusion ==
    [title |-> <<"Conclusion">>, type |-> "section", target_word_count |-> 200,
     key_points |-> <<Words(<<"Summary", "of", "key", "points">>),
                      Words(<<"Future", "implications">>),
                      Words(<<"Call", "to", "action">>)>>]

MainSection(point) ==
    [title |-> point, type |-> "section", target_word_count |-> 300,
     subsections |-> << [title |-> Words(<<"Current", "Trends">>), type |-> "subsection",
                         target_word_count |-> 150],
                        [title |-> Words(<<"Best", "Practices">>), type |-> "subsection",
                         target_word_count |-> 150] >>]

\* variant: the findings are laid out last to first
create_sections_reversed(topic, points) ==
    <<Introduction>> \o [i \in 1..Len(points) |-> MainSection(points[Len(points) + 1 - i])]
        \o <<Conclusion>>

create_sections(topic, points) ==
    <<Introduction>> \o [i \in 1..Len(points) |-> MainSection(points[i])]
        \o <<Conclusion>>

\* section.get(name, default)
SectionGet(section, name, default) ==
    IF name \in DOMAIN section THEN section[name] ELSE default

RECURSIVE SumWordCounts(_)
SumWordCounts(nodes) ==
    IF Len(nodes) = 0 THEN 0
    ELSE SectionGet(nodes[1], "target_word_count", 0) + SumWordCounts(Tail(nodes))

\* variant: the subsections are not counted
calculate_word_count_sections_only(sections) == SumWordCounts(sections)

RECURSIVE calculate_word_count(_)
calculate_word_count(sections) ==
    IF Len(sections) = 0 THEN 0
    ELSE SectionGet(sections[1], "target_word_count", 0)
             + SumWordCounts(SectionGet(sections[1], "subsections", <<>>))
             + calculate_word_count(Tail(sections))

\* the BlogOutline ContentPlanningAgent.execute builds
BlogOutline(research) ==
    LET topic == research.selected_topic
        points == research.key_findings
        sections == create_sections(topic, points)
    IN [title |-> generate_title(topic),
        meta_description |-> generate_meta_description(topic, points),
        sections |-> sections,
        target_keywords |-> research.keywords,
        estimated_word_count |-> calculate_word_count(sections)]

PlanningContextUpdate(o) ==
    << <<"metadata", Dict([outline |-> o, meta_description |-> o.meta_description])>> >>

(***************************************************************************)
(* content_generation_agent.py                                             *)
(***************************************************************************)
\* the two content_parts appended for one key point or one subsection title
EntryParts(text) ==
    << <<"##", SP>> \o text \o <<NL>>,
       Words(<<"Content", "about">>) \o <<SP>> \o Lower(text) \o <<"...", NL>> >>

RECURSIVE EntriesParts(_)
EntriesParts(texts) ==
    IF Len(texts) = 0 THEN <<>>
    ELSE EntryParts(texts[1]) \o EntriesParts(Tail(texts))

\* section.get(name) is truthy: present and non-empty
SectionHas(section, name) == name \in DOMAIN section /\ Len(section[name]) > 0

\* variant: only the key points are rendered, the subsections are dropped
generate_section_content_points_only(section) ==
    LET head == << <<"#", SP>> \o section.title \o <<NL>> >>
        points == IF SectionHas(section, "key_points")
                  THEN EntriesParts(section.key_points) ELSE <<>>
    IN Join(<<NL>>, head \o points)

generate_section_content(section) ==
    LET head == << <<"#", SP>> \o section.title \o <<NL>> >>
        points == IF SectionHas(section, "key_points")
                  THEN EntriesParts(section.key_points) ELSE <<>>
        subs == IF SectionHas(section, "subsections")
                THEN EntriesParts([i \in 1..Len(section.subsections) |->
                                       section.subsections[i].title])
                ELSE <<>>
    IN Join(<<NL>>, head \o points \o subs)

\* the BlogPost ContentGenerationAgent.execute builds
BlogPost(o, research) ==
    LET content_sections == [i \in 1..Len(o.sections) |-> generate_section_content(o.sections[i])]
        full_content == Join(<<NL, NL>>, content_sections)
        word_count == SplitCount(full_content)
    IN [title |-> o.title,
        meta_description |-> o.meta_description,
        content |-> full_content,
        word_count |-> word_count,
        keywords |-> o.target_keywords,
        sources |-> research.sources]

GenerationContextUpdate(post) ==
    << <<"metadata", Dict([blog_post |-> post, actual_word_count |-> post.word_count])>> >>

(***************************************************************************)
(* seo_optimization_agent.py                                               *)
(***************************************************************************)
optimize_title(title) == title

optimize_meta_description(meta_description) == meta_description

optimize_content(content, kws) == content

\* variant: the last keyword is left out
calculate_keyword_density_short(content, kws) ==
    [k \in {kws[i] : i \in 1..(Len(kws) - 1)} |-> 2]

\* {keyword: 0.02 for keyword in keywords}
calculate_keyword_density(content, kws) ==
    [k \in {kws[i] : i \in 1..Len(kws)} |-> 2]

\* variant: the score is scaled to a percentage a second time
calculate_readability_score_rescaled(content) == 75 * 100

calculate_readability_score(content) == 75

\* the SEOOptimizedPost SEOOptimizationAgent.execute builds
SEOOptimizedPost(post) ==
    LET optimized_content == optimize_content(post.content, post.keywords)
    IN [title |-> optimize_title(post.title),
        meta_description |-> optimize_meta_description(post.meta_description),
        content |-> optimized_content,
        word_count |-> SplitCount(optimized_content),
        keywords |-> post.keywords,
        sources |-> post.sources,
        keyword_density |-> calculate_keyword_density(optimized_content, post.keywords),
        readability_score |-> calculate_readability_score(optimized_content)]

SEOContextUpdate(post) ==
    << <<"metadata", Dict([optimized_post |-> post,
                           keyword_density |-> post.keyword_density,
                           readability_score |-> post.readability_score])>> >>

(***************************************************************************)
(* orchestrator.py                                                         *)
(***************************************************************************)
\* default of __init__'s target_word_count
DefaultTargetWordCount == 2000

\* BlogGenerationOrchestrator.__init__: the one context handed to all four agents
OrchestratorContext(target_word_count) == AgentContext(<<>>, <<>>, target_word_count)

\* variant: the planning await is issued again after planning has returned
StageAfterRepeating(stage) ==
    CASE stage = "research" -> "planning"
      [] stage = "planning" -> "planning"
      [] stage = "generation" -> "optimization"
      [] stage = "optimization" -> "assemble"

\* the order of the awaits in generate_blog_post
StageAfter(stage) ==
    CASE stage = "research" -> "planning"
      [] stage = "planning" -> "generation"
      [] stage = "generation" -> "optimization"
      [] stage = "optimization" -> "assemble"

\* variant: the exception is caught and a PipelineError raised in its place
OnStageErrorWrapped(exc) == [pc |-> "failed", error |-> "PipelineError"]

\* generate_blog_post has no try/except around its awaits: an exception raised by
\* a stage leaves the coroutine as it is
OnStageError(exc) == [pc |-> "failed", error |-> exc]

\* variant: the result's sources are filled from the keywords
BlogGenerationResultMixedUp(post) ==
    [title |-> post.title,
     meta_description |-> post.meta_description,
     content |-> post.content,
     word_count |-> post.word_count,
     keywords |-> post.keywords,
     sources |-> post.keywords,
     keyword_density |-> post.keyword_density,
     readability_score |-> post.readability_score]

\* generation_time is wall-clock time; left out of the equality of results
BlogGenerationResult(post) ==
    [title |-> post.title,
     meta_description |-> post.meta_description,
     content |-> post.content,
     word_count |-> post.word_count,
     keywords |-> post.keywords,
     sources |-> post.sources,
     keyword_density |-> post.keyword_density,
     readability_score |-> post.readability_score]

\* variant: the snapshot leaves the metadata out
get_generation_status_no_metadata(context) ==
    [topic |-> context.topic,
     keywords |-> context.keywords,
     target_word_count |-> context.target_word_count,
     metadata |-> None]

get_generation_status(context) ==
    [topic |-> context.topic,
     keywords |-> context.keywords,
     target_word_count |-> context.target_word_count,
     metadata |-> context.metadata]

\* BaseAgent.log: one printed line
LogLine(agent, message, level) == [agent |-> agent, message |-> message, level |-> level]

\* what a caller may pass as `topic`
Topics == {NoStr, SomeStr(<<>>), SomeStr(Words(<<"Hybrid", "Work">>))}

\* exceptions a stage's collaborators may raise
Exceptions == {"ConnectionError", "RuntimeError"}

NoError == "none"

\* target_word_count values an orchestrator is constructed with
TargetWordCounts == {DefaultTargetWordCount, 1200}

(***************************************************************************)
(* Direct calls of update_context and get_context_value on an agent        *)
(***************************************************************************)
\* keys that are not fields of AgentContext
NonFieldKeys == {"author", "stats"}

\* values stored under a non-field key: a scalar and two nested maps
MetaValues ==
    {Scalar(1), Dict(SetItem(EmptyDict, "views", Scalar(1))),
     Dict(SetItem(EmptyDict, "likes", Scalar(2)))}

\* values passed for the field `metadata`
MetadataValues ==
    {None, Dict(EmptyDict), Dict(SetItem(EmptyDict, "author", Scalar(1)))}

\* values passed for the field `topic`
TopicValues == {Words(<<"Hybrid", "Work">>)}

KwargEntries ==
    {<<"topic", v>> : v \in TopicValues}
        \cup {<<"metadata", v>> : v \in MetadataValues}
        \cup {<<k, v>> : k \in NonFieldKeys, v \in MetaValues}

\* **kwargs: up to MaxKwargs entries, no key twice
KwargsSet ==
    {ks \in SeqsUpTo(KwargEntries, MaxKwargs) :
        /\ Len(ks) > 0
        /\ \A i, j \in 1..Len(ks) : i # j => ks[i][1] # ks[j][1]}

ReadKeys == {"topic", "metadata", "missing"} \cup NonFieldKeys

NoRead == [key |-> "", value |-> None]

(***************************************************************************)
(* The pipeline: one BlogGenerationOrchestrator, called again and again    *)
(***************************************************************************)
\* the orchestrators of a process, and the AgentContext object each one's
\* __init__ creates: a new object per orchestrator
Orchestrators == {1, 2}

\* variant: every orchestrator uses the one process-wide context
ContextOfSingleton(orchestrator) == 1

ContextOf(orchestrator) == orchestrator

\* the frame of a generate_blog_post coroutine that has not been called yet
IdleFrame ==
    [pc |-> "idle", topic_arg |-> NoStr, topic_candidates |-> trending_topics,
     query |-> NoStr, research_data |-> Unset, outline |-> Unset, blog_post |-> Unset,
     optimized_post |-> Unset, result |-> Unset, error |-> NoError, log |-> <<>>]

Init ==
    /\ ctx \in {OrchestratorContext(n) : n \in TargetWordCounts}
    /\ kept = Unset
    /\ current = 1
    /\ parked = IdleFrame
    /\ contexts = [r \in {ContextOf(o) : o \in Orchestrators} |->
                       OrchestratorContext(ctx.target_word_count)]
    /\ pc = "idle"
    /\ topic_arg = NoStr
    /\ topic_candidates = trending_topics
    /\ query = NoStr
    /\ research_data = Unset
    /\ outline = Unset
    /\ blog_post = Unset
    /\ optimized_post = Unset
    /\ result = Unset
    /\ error = NoError
    /\ log = <<>>
    /\ status = Unset
    /\ kw = <<>>
    /\ got = NoRead
    /\ op = "none"

\* a caller awaits generate_blog_post(topic); start_time is taken and
\* research_agent.execute(query=topic) is entered
generate_blog_post(topic) ==
    /\ pc \in {"idle", "done", "failed"}
    /\ pc' = "research"
    /\ topic_arg' = topic
    /\ query' = topic
    /\ research_data' = Unset
    /\ outline' = Unset
    /\ blog_post' = Unset
    /\ optimized_post' = Unset
    /\ result' = Unset
    /\ error' = NoError
    /\ log' = <<>>
    /\ status' = Unset
    /\ UNCHANGED <<ctx, topic_candidates, directVars, callerVars>>

\* ResearchAgent.execute up to its first await
ResearchAgent_execute ==
    /\ pc = "research"
    /\ log' = Append(log, LogLine("ResearchAgent", "Starting research process", "info"))
    /\ pc' = IF Falsy(query) THEN "find_trending" ELSE "gather"
    /\ status' = Unset
    /\ UNCHANGED <<ctx, query, research_data, outline, blog_post, optimized_post,
                   result, error, directVars, callerVars, topic_arg, topic_candidates>>

\* _find_trending_topics returns the top of the list it scraped; the topic is
\* written to the context
ResearchAgent_select_topic_from(scraped) ==
    /\ pc = "find_trending"
    /\ topic_candidates' = scraped
    /\ LET trending_topic == PyMax(scraped)
       IN /\ ctx' = update_context(ctx, << <<"topic", trending_topic.title>> >>)
          /\ query' = SomeStr(trending_topic.title)
    /\ pc' = "gather"
    /\ status' = Unset
    /\ UNCHANGED <<research_data, outline, blog_post, optimized_post,
                   result, error, log, directVars, callerVars, topic_arg>>

\* _find_trending_topics as it stands: the list is the placeholder's
ResearchAgent_select_topic == ResearchAgent_select_topic_from(trending_topics)

\* _gather_information returns; execute builds its result, writes the context
\* and returns to generate_blog_post
ResearchAgent_finish(gathered) ==
    /\ pc = "gather"
    /\ LET res == ResearchResult(query.s, gathered)
       IN /\ research_data' = res
          /\ ctx' = update_context(ctx, ResearchContextUpdate(res))
    /\ log' = Append(log, LogLine("ResearchAgent", "Research completed", "success"))
    /\ pc' = StageAfter("research")
    /\ status' = Unset
    /\ UNCHANGED <<query, outline, blog_post, optimized_post, result, error,
                   directVars, callerVars, topic_arg, topic_candidates>>

\* an exception leaves _find_trending_topics or _gather_information
ResearchAgent_raise(exc) ==
    /\ pc \in {"find_trending", "gather"}
    /\ pc' = OnStageError(exc).pc
    /\ error' = OnStageError(exc).error
    /\ status' = Unset
    /\ UNCHANGED <<ctx, query, research_data, outline, blog_post, optimized_post,
                   result, log, directVars, callerVars, topic_arg, topic_candidates>>

ContentPlanningAgent_execute ==
    /\ pc = "planning"
    /\ LET o == BlogOutline(research_data)
       IN /\ outline' = o
          /\ ctx' = update_context(ctx, PlanningContextUpdate(o))
    /\ log' = log \o << LogLine("ContentPlanningAgent", "Starting content planning process", "info"),
                        LogLine("ContentPlanningAgent", "Content plan created", "success") >>
    /\ pc' = StageAfter("planning")
    /\ status' = Unset
    /\ UNCHANGED <<query, research_data, blog_post, optimized_post, result, error,
                   directVars, callerVars, topic_arg, topic_candidates>>

ContentPlanningAgent_raise(exc) ==
    /\ pc = "planning"
    /\ log' = Append(log, LogLine("ContentPlanningAgent", "Starting content planning process", "info"))
    /\ pc' = OnStageError(exc).pc
    /\ error' = OnStageError(exc).error
    /\ status' = Unset
    /\ UNCHANGED <<ctx, query, research_data, outline, blog_post, optimized_post,
                   result, directVars, callerVars, topic_arg, topic_candidates>>

ContentGenerationAgent_execute ==
    /\ pc = "generation"
    /\ LET post == BlogPost(outline, research_data)
       IN /\ blog_post' = post
          /\ ctx' = update_context(ctx, GenerationContextUpdate(post))
    /\ log' = log \o << LogLine("ContentGenerationAgent", "Starting content generation process", "info"),
                        LogLine("ContentGenerationAgent", "Content generation completed", "success") >>
    /\ pc' = StageAfter("generation")
    /\ status' = Unset
    /\ UNCHANGED <<query, research_data, outline, optimized_post, result, error,
                   directVars, callerVars, topic_arg, topic_candidates>>

ContentGenerationAgent_raise(exc) ==
    /\ pc = "generation"
    /\ log' = Append(log, LogLine("ContentGenerationAgent", "Starting content generation process", "info"))
    /\ pc' = OnStageError(exc).pc
    /\ error' = OnStageError(exc).error
    /\ status' = Unset
    /\ UNCHANGED <<ctx, query, research_data, outline, blog_post, optimized_post,
                   result, directVars, callerVars, topic_arg, topic_candidates>>

SEOOptimizationAgent_execute ==
    /\ pc = "optimization"
    /\ LET post == SEOOptimizedPost(blog_post)
       IN /\ optimized_post' = post
          /\ ctx' = update_context(ctx, SEOContextUpdate(post))
    /\ log' = log \o << LogLine("SEOOptimizationAgent", "Starting SEO optimization process", "info"),
                        LogLine("SEOOptimizationAgent", "SEO optimization completed", "success") >>
    /\ pc' = StageAfter("optimization")
    /\ status' = Unset
    /\ UNCHANGED <<query, research_data, outline, blog_post, result, error,
                   directVars, callerVars, topic_arg, topic_candidates>>

SEOOptimizationAgent_raise(exc) ==
    /\ pc = "optimization"
    /\ log' = Append(log, LogLine("SEOOptimizationAgent", "Starting SEO optimization process", "info"))
    /\ pc' = OnStageError(exc).pc
    /\ error' = OnStageError(exc).error
    /\ status' = Unset
    /\ UNCHANGED <<ctx, query, research_data, outline, blog_post, optimized_post,
                   result, directVars, callerVars, topic_arg, topic_candidates>>

\* generate_blog_post builds the BlogGenerationResult and returns it
\* variant: the result is built only once a signal arrives that nothing sends
ReturnResultBlocked ==
    /\ pc = "assemble"
    /\ FALSE
    /\ UNCHANGED vars

ReturnResult ==
    /\ pc = "assemble"
    /\ result' = BlogGenerationResult(optimized_post)
    /\ pc' = "done"
    /\ status' = Unset
    /\ UNCHANGED <<ctx, query, research_data, outline, blog_post, optimized_post,
                   error, log, directVars, callerVars, topic_arg, topic_candidates>>

\* variant: the call hands the metadata out and clears it in the context
GetGenerationStatusTakingMetadata ==
    /\ status' = get_generation_status(ctx)
    /\ ctx' = [ctx EXCEPT !.metadata = None]
    /\ UNCHANGED <<pc, query, research_data, outline, blog_post, optimized_post,
                   result, error, log, directVars, callerVars, topic_arg, topic_candidates>>

\* an observer calls get_generation_status between two steps of the pipeline
GetGenerationStatus ==
    /\ status' = get_generation_status(ctx)
    /\ UNCHANGED <<ctx, pc, query, research_data, outline, blog_post, optimized_post,
                   result, error, log, directVars, callerVars, topic_arg, topic_candidates>>

Next ==
    \/ \E topic \in Topics : generate_blog_post(topic)
    \/ ResearchAgent_execute
    \/ ResearchAgent_select_topic
    \/ \E gathered \in GatherOutcomes : ResearchAgent_finish(gathered)
    \/ \E exc \in Exceptions : ResearchAgent_raise(exc)
    \/ ContentPlanningAgent_execute
    \/ \E exc \in Exceptions : ContentPlanningAgent_raise(exc)
    \/ ContentGenerationAgent_execute
    \/ \E exc \in Exceptions : ContentGenerationAgent_raise(exc)
    \/ SEOOptimizationAgent_execute
    \/ \E exc \in Exceptions : SEOOptimizationAgent_raise(exc)
    \/ ReturnResult
    \/ GetGenerationStatus

Spec == Init /\ [][Next]_vars

(***************************************************************************)
(* The Research stage with the scraped candidate list as an input          *)
(***************************************************************************)
NextTopics ==
    \/ \E topic \in Topics : generate_blog_post(topic)
    \/ ResearchAgent_execute
    \/ \E scraped \in CandidateLists : ResearchAgent_select_topic_from(scraped)
    \/ ResearchAgent_finish(gather_information(key_points, sources, keywords))
    \/ \E exc \in Exceptions : ResearchAgent_raise(exc)

SpecTopics == Init /\ [][NextTopics]_vars

(***************************************************************************)
(* Direct use of the context through an agent                              *)
(***************************************************************************)
BaseAgent_update_context(kwargs) ==
    /\ ctx' = update_context(ctx, kwargs)
    /\ kw' = kwargs
    /\ got' = NoRead
    /\ op' = "update"
    /\ UNCHANGED <<pipelineVars, callerVars>>

BaseAgent_get_context_value(key) ==
    /\ got' = [key |-> key, value |-> get_context_value(ctx, key)]
    /\ op' = "read"
    /\ UNCHANGED <<ctx, kw, pipelineVars, callerVars>>

NextContext ==
    \/ \E kwargs \in KwargsSet : BaseAgent_update_context(kwargs)
    \/ \E key \in ReadKeys : BaseAgent_get_context_value(key)

SpecContext == Init /\ [][NextContext]_vars

(***************************************************************************)
(* One orchestrator called again and again by a caller who keeps a result  *)
(***************************************************************************)
\* what the collaborators of the Research stage answered in a run
Gathered(research) ==
    [f \in DOMAIN research \ {"selected_topic"} |-> research[f]]

\* result = await orchestrator.generate_blog_post(topic): the caller keeps
\* the first result it wants to compare later ones with, together with the
\* argument, the collaborators' answers and the context as the call left it
CallerKeepsResult ==
    /\ pc = "done"
    /\ ~IsSet(kept)
    /\ kept' = [topic |-> topic_arg, gathered |-> Gathered(research_data),
                result |-> result, context |-> ctx]
    /\ UNCHANGED <<ctx, pipelineVars, directVars, current, parked, contexts>>

\* answers of _gather_information that differ from call to call: the
\* placeholder's, a short one and an empty one
RepeatOutcomes ==
    {gather_information(key_points, sources, keywords),
     gather_information(<<key_points[2]>>, <<sources[3]>>, <<keywords[2]>>),
     gather_information(<<>>, <<>>, <<>>)}

NextRepeat ==
    \/ \E topic \in Topics : generate_blog_post(topic)
    \/ ResearchAgent_execute
    \/ ResearchAgent_select_topic
    \/ \E gathered \in RepeatOutcomes : ResearchAgent_finish(gathered)
    \/ ContentPlanningAgent_execute
    \/ ContentGenerationAgent_execute
    \/ SEOOptimizationAgent_execute
    \/ ReturnResult
    \/ CallerKeepsResult

SpecRepeat == Init /\ [][NextRepeat]_vars

(***************************************************************************)
(* A caller who also replaces the orchestrator by a new one                *)
(***************************************************************************)
\* BlogGenerationOrchestrator(target_word_count): between two calls the
\* caller drops the orchestrator and constructs a new one, with a new
\* context; what the caller has kept stays
NewOrchestrator(target_word_count) ==
    /\ pc \in {"idle", "done", "failed"}
    /\ ctx' = OrchestratorContext(target_word_count)
    /\ pc' = IdleFrame.pc
    /\ topic_arg' = IdleFrame.topic_arg
    /\ topic_candidates' = IdleFrame.topic_candidates
    /\ query' = IdleFrame.query
    /\ research_data' = IdleFrame.research_data
    /\ outline' = IdleFrame.outline
    /\ blog_post' = IdleFrame.blog_post
    /\ optimized_post' = IdleFrame.optimized_post
    /\ result' = IdleFrame.result
    /\ error' = IdleFrame.error
    /\ log' = IdleFrame.log
    /\ status' = Unset
    /\ UNCHANGED <<directVars, callerVars>>

NextIndependent ==
    \/ \E topic \in Topics : generate_blog_post(topic)
    \/ ResearchAgent_execute
    \/ ResearchAgent_select_topic
    \/ \E gathered \in RepeatOutcomes : ResearchAgent_finish(gathered)
    \/ ContentPlanningAgent_execute
    \/ ContentGenerationAgent_execute
    \/ SEOOptimizationAgent_execute
    \/ ReturnResult
    \/ CallerKeepsResult
    \/ \E n \in TargetWordCounts : NewOrchestrator(n)

SpecIndependent == Init /\ [][NextIndependent]_vars

(***************************************************************************)
(* Two orchestrators whose calls the event loop interleaves                *)
(***************************************************************************)
OtherOrchestrator(orchestrator) == CHOOSE o \in Orchestrators : o # orchestrator

\* the frame of the running coroutine
Frame ==
    [pc |-> pc, topic_arg |-> topic_arg, topic_candidates |-> topic_candidates,
     query |-> query, research_data |-> research_data, outline |-> outline,
     blog_post |-> blog_post, optimized_post |-> optimized_post, result |-> result,
     error |-> error, log |-> log]

\* at an await the event loop suspends the running call and resumes the
\* other orchestrator's; each call goes on with its own frame and with the
\* context object its orchestrator created
Switch ==
    /\ current' = OtherOrchestrator(current)
    /\ parked' = Frame
    /\ contexts' = [contexts EXCEPT ![ContextOf(current)] = ctx]
    /\ ctx' = contexts'[ContextOf(OtherOrchestrator(current))]
    /\ pc' = parked.pc
    /\ topic_arg' = parked.topic_arg
    /\ topic_candidates' = parked.topic_candidates
    /\ query' = parked.query
    /\ research_data' = parked.research_data
    /\ outline' = parked.outline
    /\ blog_post' = parked.blog_post
    /\ optimized_post' = parked.optimized_post
    /\ result' = parked.result
    /\ error' = parked.error
    /\ log' = parked.log
    /\ status' = Unset
    /\ UNCHANGED <<directVars, kept>>

\* the one call made on each orchestrator
FirstCall(topic) == pc = "idle" /\ generate_blog_post(topic)

NextPair ==
    \/ \E topic \in Topics : FirstCall(topic)
    \/ ResearchAgent_execute
    \/ ResearchAgent_select_topic
    \/ \E gathered \in RepeatOutcomes : ResearchAgent_finish(gathered)
    \/ ContentPlanningAgent_execute
    \/ ContentGenerationAgent_execute
    \/ SEOOptimizationAgent_execute
    \/ ReturnResult
    \/ Switch

SpecPair == Init /\ [][NextPair]_vars

(***************************************************************************)
(* Calls whose stages return, or never return, under a fair event loop     *)
(***************************************************************************)
\* the positions at which generate_blog_post is suspended in an await on a
\* collaborator of a stage
AwaitPositions == {"find_trending", "gather", "planning", "generation", "optimization"}

\* the awaited collaborator never answers: the call stays suspended at its
\* await, and nothing in generate_blog_post times the await out or cancels it
StageNeverReturns ==
    /\ pc \in AwaitPositions
    /\ pc' = "hung"
    /\ status' = Unset
    /\ UNCHANGED <<ctx, query, research_data, outline, blog_post, optimized_post,
                   result, error, log, directVars, callerVars, topic_arg, topic_candidates>>

ResearchAgent_gathers == \E gathered \in RepeatOutcomes : ResearchAgent_finish(gathered)

NextLive ==
    \/ \E topic \in Topics : generate_blog_post(topic)
    \/ ResearchAgent_execute
    \/ ResearchAgent_select_topic
    \/ ResearchAgent_gathers
    \/ ContentPlanningAgent_execute
    \/ ContentGenerationAgent_execute
    \/ SEOOptimizationAgent_execute
    \/ ReturnResult
    \/ StageNeverReturns

\* the event loop resumes a coroutine whose awaited step can complete, and
\* synchronous code runs on; nothing obliges a caller to call again
\* (weak fairness of the Generation step is written with its enabling
\* condition, pc = "generation", spelled out)
FairLoop ==
    /\ WF_vars(ResearchAgent_execute)
    /\ WF_vars(ResearchAgent_select_topic)
    /\ WF_vars(ResearchAgent_gathers)
    /\ WF_vars(ContentPlanningAgent_execute)
    /\ <>[](pc = "generation") => []<><<ContentGenerationAgent_execute>>_vars
    /\ WF_vars(SEOOptimizationAgent_execute)
    /\ WF_vars(ReturnResult)

SpecLive == Init /\ [][NextLive]_vars /\ FairLoop

(***************************************************************************)
(* Properties of the pipeline                                              *)
(***************************************************************************)
IsPrefix(s, t) == Len(s) <= Len(t) /\ SubSeq(t, 1, Len(s)) = s

\* the lines one complete run prints, in order
FullLog ==
    << LogLine("ResearchAgent", "Starting research process", "info"),
       LogLine("ResearchAgent", "Research completed", "success"),
       LogLine("ContentPlanningAgent", "Starting content planning process", "info"),
       LogLine("ContentPlanningAgent", "Content plan created", "success"),
       LogLine("ContentGenerationAgent", "Starting content generation process", "info"),
       LogLine("ContentGenerationAgent", "Content generation completed", "success"),
       LogLine("SEOOptimizationAgent", "Starting SEO optimization process", "info"),
       LogLine("SEOOptimizationAgent", "SEO optimization completed", "success") >>

\* number of stages that have returned in the current call
StagesReturned == Len(log) \div 2

\* the agent whose execute raised, in a failed call
FailedAgent == log[Len(log)].agent

\* C1: in every run the stages are entered once each in the order Research,
\* Planning, Generation, Optimization, each only after the one before it has
\* returned, and the result is built only after Optimization has returned:
\* the lines printed so far are always a prefix of the one complete sequence
\* of start/completed lines, the position of the call fixes how many stages
\* have returned, and a returned result comes with the whole sequence.
C1_StagesInOrder ==
    /\ IsPrefix(log, FullLog)
    /\ pc \in {"idle", "research"} => Len(log) = 0
    /\ pc \in {"find_trending", "gather"} => Len(log) = 1
    /\ pc = "planning" => Len(log) = 2 /\ IsSet(research_data)
    /\ pc = "generation" => Len(log) = 4 /\ IsSet(outline)
    /\ pc = "optimization" => Len(log) = 6 /\ IsSet(blog_post)
    /\ pc \in {"assemble", "done"} => log = FullLog /\ IsSet(optimized_post)
    /\ IsSet(result) <=> pc = "done"
    /\ IsSet(outline) => IsSet(research_data) /\ StagesReturned >= 2
    /\ IsSet(blog_post) => IsSet(outline) /\ StagesReturned >= 3
    /\ IsSet(optimized_post) => IsSet(blog_post) /\ StagesReturned = 4

C1_Witness ==
    /\ pc = "done"
    /\ IsSet(result)
    /\ log = FullLog
    /\ Len(research_data.key_findings) = 2

MetadataKeys == IF ctx.metadata.t = "dict" THEN DOMAIN ctx.metadata.v ELSE {}

\* the metadata keys the first n stages of a run write
KeysWrittenBy(n) ==
    (IF n >= 1 THEN {"sources", "key_findings"} ELSE {})
        \cup (IF n >= 2 THEN {"outline", "meta_description"} ELSE {})
        \cup (IF n >= 3 THEN {"blog_post", "actual_word_count"} ELSE {})
        \cup (IF n >= 4 THEN {"optimized_post", "keyword_density", "readability_score"} ELSE {})

\* C2: during a run the metadata is mutated additively: every key written by
\* a stage that has returned is still in the context's metadata after each
\* later stage has executed.
C2_MetadataAdditive == KeysWrittenBy(StagesReturned) \subseteq MetadataKeys

RaiseStep(exc) ==
    \/ ResearchAgent_raise(exc)
    \/ ContentPlanningAgent_raise(exc)
    \/ ContentGenerationAgent_raise(exc)
    \/ SEOOptimizationAgent_raise(exc)

C3_Failed ==
    pc = "failed" =>
        /\ ~IsSet(result)
        /\ error \in Exceptions
        /\ IsPrefix(log, FullLog)
        /\ Len(log) % 2 = 1
        /\ StagesReturned = 0 => ~IsSet(research_data)
        /\ StagesReturned <= 1 => ~IsSet(outline)
        /\ StagesReturned <= 2 => ~IsSet(blog_post)
        /\ ~IsSet(optimized_post)

C3_Step ==
    /\ \A exc \in Exceptions :
           RaiseStep(exc) => pc' = "failed" /\ error' = exc /\ ~IsSet(result')
    /\ pc = "failed" =>
           \/ pc' = "research"
           \/ /\ pc' = "failed"
              /\ UNCHANGED <<ctx, query, research_data, outline, blog_post,
                             optimized_post, result, error, log>>

\* C3: a stage failure aborts generate_blog_post: when a stage raises, the call
\* ends with exactly that exception and no result, the failing stage is the
\* last one entered, the locals of every later stage stay unassigned, and
\* nothing more happens until a new call is made.
C3_FailureAborts == []C3_Failed /\ [][C3_Step]_vars

C3_Witness ==
    /\ pc = "failed"
    /\ error = "ConnectionError"
    /\ FailedAgent = "ContentPlanningAgent"
    /\ IsSet(research_data)

C4_Status ==
    (pc = "failed" /\ IsSet(status)) =>
        /\ DOMAIN status = {"topic", "keywords", "target_word_count", "metadata"}
        /\ status.target_word_count = ctx.target_word_count
        /\ (StagesReturned = 0 /\ ~query.isNone /\ query.s = find_trending_topics.title)
               => status.topic = find_trending_topics.title
        /\ StagesReturned >= 1 => status.keywords = research_data.keywords
        /\ StagesReturned = 1 =>
               status.metadata = Dict([sources |-> research_data.sources,
                                       key_findings |-> research_data.key_findings])
        /\ StagesReturned = 2 =>
               status.metadata = Dict([outline |-> outline,
                                       meta_description |-> outline.meta_description])
        /\ StagesReturned = 3 =>
               status.metadata = Dict([blog_post |-> blog_post,
                                       actual_word_count |-> blog_post.word_count])

C4_Step ==
    /\ ctx'.target_word_count = ctx.target_word_count
    /\ pc' = "failed" => ctx' = ctx
    /\ pc' \in {"research", "find_trending"} => ctx' = ctx
    /\ pc' = "gather" =>
           /\ ctx'.keywords = ctx.keywords
           /\ ctx'.metadata = ctx.metadata

\* C4: after a run fails in stage k, get_generation_status shows the context
\* exactly as the writes completed before the failure left it: the failing
\* step and the steps after it change nothing, Research's topic write made
\* before a failure in gathering is kept, a failure inside Research leaves
\* keywords and metadata as they were when the call began, and after a later
\* failure keywords and metadata are the ones written by the stages that
\* returned, with nothing of a stage that did not run.
C4_StatusAfterFailure == []C4_Status /\ [][C4_Step]_vars

C4_Witness ==
    /\ pc = "failed"
    /\ IsSet(status)
    /\ StagesReturned = 2
    /\ Len(status.keywords) = 2
    /\ status.metadata = Dict([outline |-> outline,
                               meta_description |-> outline.meta_description])

\* C5: an empty research result is never handed on: whenever Research has
\* returned its result to generate_blog_post, key_findings and sources are
\* both non-empty.
C5_EmptyResearchRejected ==
    IsSet(research_data) =>
        Len(research_data.key_findings) > 0 /\ Len(research_data.sources) > 0

\* C6: when a call of generate_blog_post starts, the context holds nothing an
\* earlier call wrote: it equals a newly constructed context.
C6_FreshContextPerRun ==
    pc = "research" => ctx = OrchestratorContext(ctx.target_word_count)

\* C7: the sources sequence of the BlogPost, the SEOOptimizedPost and the
\* returned result is the sequence of the research result, element for element.
C7_SourcesPassThrough ==
    /\ IsSet(blog_post) => blog_post.sources = research_data.sources
    /\ IsSet(optimized_post) => optimized_post.sources = research_data.sources
    /\ IsSet(result) => result.sources = research_data.sources

C7_Witness ==
    /\ pc = "done"
    /\ Len(result.sources) = 2
    /\ result.sources[1] # result.sources[2]
    /\ result.sources = research_data.sources

Range(seq) == {seq[i] : i \in 1..Len(seq)}

\* C8: no stage invents or loses a keyword: the keywords of the outline, the
\* BlogPost, the SEOOptimizedPost and the result, the keys of keyword_density
\* and the context's keywords once Research has returned are, as sets, the
\* keywords of the research result.
C8_KeywordsTraceable ==
    /\ IsSet(research_data) => Range(ctx.keywords) = Range(research_data.keywords)
    /\ IsSet(outline) => Range(outline.target_keywords) = Range(research_data.keywords)
    /\ IsSet(blog_post) => Range(blog_post.keywords) = Range(research_data.keywords)
    /\ IsSet(optimized_post) =>
           /\ Range(optimized_post.keywords) = Range(research_data.keywords)
           /\ DOMAIN optimized_post.keyword_density = Range(research_data.keywords)
    /\ IsSet(result) =>
           /\ Range(result.keywords) = Range(research_data.keywords)
           /\ DOMAIN result.keyword_density = Range(research_data.keywords)

C8_Witness ==
    /\ pc = "done"
    /\ Cardinality(Range(research_data.keywords)) = 2
    /\ DOMAIN result.keyword_density = Range(research_data.keywords)
    /\ Range(ctx.keywords) = Range(result.keywords)

(***************************************************************************)
(* Properties of update_context and get_context_value                      *)
(***************************************************************************)
\* a map merged into a map: the keys of both, the new value where both have one
DeepMerge(old, new) ==
    IF old.t = "dict" /\ new.t = "dict"
    THEN Dict([k \in DOMAIN old.v \cup DOMAIN new.v |->
                   IF k \in DOMAIN new.v THEN new.v[k] ELSE old.v[k]])
    ELSE new

MergedEntry(context, key, value) ==
    IF key \in ContextFields THEN [context EXCEPT ![key] = value]
    ELSE LET d == IF context.metadata.t = "dict" THEN context.metadata.v ELSE EmptyDict
             merged == IF key \in DOMAIN d THEN DeepMerge(d[key], value) ELSE value
         IN [context EXCEPT !.metadata = Dict(SetItem(d, key, merged))]

RECURSIVE MergedUpdate(_, _)
MergedUpdate(context, kwargs) ==
    IF Len(kwargs) = 0 THEN context
    ELSE MergedUpdate(MergedEntry(context, kwargs[1][1], kwargs[1][2]), Tail(kwargs))

\* C9: update_context sets a field when the key names one and otherwise merges
\* the entry into metadata, keeping every other key, letting a later scalar
\* win and deep-merging a nested map with the map already stored under the
\* key; it also works while metadata is still None.
C9_UpdateDeepMerges == [][op' = "update" => ctx' = MergedUpdate(ctx, kw')]_vars

\* C10: get_context_value returns the field when the key names one, otherwise
\* the value stored under the key in metadata, and None when there is none or
\* metadata is unset; and a read of k that follows update_context(k=v) returns v.
C10_ReadAfterUpdate ==
    op = "read" =>
        /\ got.key \in ContextFields => got.value = ctx[got.key]
        /\ got.key \notin ContextFields =>
               got.value = IF ctx.metadata.t = "dict" /\ got.key \in DOMAIN ctx.metadata.v
                           THEN ctx.metadata.v[got.key]
                           ELSE None
        /\ (Len(kw) = 1 /\ kw[1][1] = got.key) => got.value = kw[1][2]

C10_Witness ==
    /\ op = "read"
    /\ Len(kw) = 1
    /\ kw[1][1] = got.key
    /\ got.key = "stats"
    /\ got.value = Dict(SetItem(EmptyDict, "likes", Scalar(2)))
    /\ ctx.metadata.t = "dict"
    /\ "author" \in DOMAIN ctx.metadata.v

(***************************************************************************)
(* Properties of the stages                                                *)
(***************************************************************************)
\* i is the first position of items that carries the largest relevance score
IsFirstMax(items, i) ==
    /\ i \in 1..Len(items)
    /\ \A j \in 1..Len(items) : items[j].relevance_score <= items[i].relevance_score
    /\ \A j \in 1..(i - 1) : items[j].relevance_score < items[i].relevance_score

\* C11: when no query is given (None or ""), Research takes the candidate with
\* the largest relevance score, the first one of them when several share it;
\* its title is in the context's topic before the gathering starts, and it is
\* the selected_topic of the result Research returns.
C11_TopicSelection ==
    (Falsy(topic_arg) /\ pc \in {"gather", "planning"}) =>
        \E i \in 1..Len(topic_candidates) :
            /\ IsFirstMax(topic_candidates, i)
            /\ ctx.topic = topic_candidates[i].title
            /\ query = SomeStr(topic_candidates[i].title)
            /\ pc = "planning" => research_data.selected_topic = topic_candidates[i].title

C11_Witness ==
    /\ pc = "planning"
    /\ topic_arg = NoStr
    /\ Len(topic_candidates) = 3
    /\ topic_candidates[1].relevance_score < topic_candidates[2].relevance_score
    /\ topic_candidates[2].relevance_score = topic_candidates[3].relevance_score
    /\ topic_candidates[2].title # topic_candidates[3].title
    /\ ctx.topic = topic_candidates[2].title
    /\ research_data.selected_topic = ctx.topic

(***************************************************************************)
(* The outline of the Planning stage                                       *)
(***************************************************************************)
\* the word budgets of an outline, section by section, each section's own
\* budget followed by the budgets of its subsections
RECURSIVE NodeBudgets(_)
NodeBudgets(sections) ==
    IF Len(sections) = 0 THEN <<>>
    ELSE LET first == sections[1]
             subs == IF "subsections" \in DOMAIN first THEN first.subsections ELSE <<>>
         IN <<first.target_word_count>> \o [i \in 1..Len(subs) |-> subs[i].target_word_count]
                \o NodeBudgets(Tail(sections))

RECURSIVE SeqSum(_)
SeqSum(numbers) ==
    IF Len(numbers) = 0 THEN 0 ELSE Head(numbers) + SeqSum(Tail(numbers))

\* Introduction 200, every main section 300, every subsection 150, Conclusion 200
BudgetsAsSpecified(sections) ==
    /\ sections[1].target_word_count = 200
    /\ sections[Len(sections)].target_word_count = 200
    /\ \A i \in 2..(Len(sections) - 1) :
           /\ sections[i].target_word_count = 300
           /\ \A j \in 1..Len(sections[i].subsections) :
                  sections[i].subsections[j].target_word_count = 150

\* C12: for a ResearchResult with N key findings the outline's
\* estimated_word_count is 400 + 600 * N, and it is the sum of the word budgets
\* of every section and subsection of the outline (Introduction 200, main
\* section 300, subsection 150, Conclusion 200).
C12_EstimatedWordCount ==
    IsSet(outline) =>
        /\ outline.estimated_word_count = 400 + 600 * Len(research_data.key_findings)
        /\ outline.estimated_word_count = SeqSum(NodeBudgets(outline.sections))
        /\ BudgetsAsSpecified(outline.sections)

C12_Witness ==
    /\ IsSet(outline)
    /\ Len(research_data.key_findings) = 2
    /\ outline.estimated_word_count = 1600

SectionTitles(nodes) == [i \in 1..Len(nodes) |-> nodes[i].title]

\* C13: for N key findings the outline has exactly N + 2 sections:
\* Introduction first, one section per finding in the order of key_findings
\* and titled by it, Conclusion last; a finding's section carries exactly the
\* subsections "Current Trends" and "Best Practices" in that order;
\* Introduction and Conclusion carry their three fixed key points and no
\* subsections.
C13_SectionLayout ==
    IsSet(outline) =>
        LET findings == research_data.key_findings
            sections == outline.sections
            N == Len(findings)
        IN /\ Len(sections) = N + 2
           /\ sections[1].title = <<"Introduction">>
           /\ sections[1].key_points = <<Words(<<"Context", "setting">>),
                                         Words(<<"Problem", "statement">>),
                                         Words(<<"Article", "overview">>)>>
           /\ "subsections" \notin DOMAIN sections[1]
           /\ \A i \in 1..N :
                  /\ sections[i + 1].title = findings[i]
                  /\ SectionTitles(sections[i + 1].subsections)
                         = <<Words(<<"Current", "Trends">>), Words(<<"Best", "Practices">>)>>
           /\ sections[N + 2].title = <<"Conclusion">>
           /\ sections[N + 2].key_points = <<Words(<<"Summary", "of", "key", "points">>),
                                             Words(<<"Future", "implications">>),
                                             Words(<<"Call", "to", "action">>)>>
           /\ "subsections" \notin DOMAIN sections[N + 2]

C13_Witness ==
    /\ IsSet(outline)
    /\ Len(research_data.key_findings) = 2
    /\ research_data.key_findings[1] # research_data.key_findings[2]
    /\ Len(outline.sections) = 4
    /\ outline.sections[3].title = research_data.key_findings[2]

(***************************************************************************)
(* The records of the Generation and Optimization stages                   *)
(***************************************************************************)
\* the whitespace-separated tokens of a text, counted by their last glyph:
\* a glyph that is no whitespace and is followed by whitespace or by the end
CountTokens(text) ==
    Cardinality({i \in 1..Len(text) :
                    /\ text[i] \notin {SP, NL}
                    /\ i = Len(text) \/ text[i + 1] \in {SP, NL}})

CountsOwnContent(record) == record.word_count = CountTokens(record.content)

\* C14: in the draft, the optimized post and the returned result, word_count
\* is the number of whitespace-separated tokens of that record's own content.
C14_WordCountOfContent ==
    /\ IsSet(blog_post) => CountsOwnContent(blog_post)
    /\ IsSet(optimized_post) => CountsOwnContent(optimized_post)
    /\ IsSet(result) => CountsOwnContent(result)

C14_Witness ==
    /\ pc = "done"
    /\ Len(research_data.key_findings) = 1
    /\ result.word_count = CountTokens(result.content)
    /\ result.word_count > 0
    /\ result.word_count # outline.estimated_word_count

\* keyword_density values are in hundredths, so [0, 1] is 0..100;
\* readability_score is in whole points
ScoresInRange(post) ==
    /\ \A k \in DOMAIN post.keyword_density : post.keyword_density[k] \in 0..100
    /\ post.readability_score \in 0..100

\* C15 as stated: keyword_density has one entry per keyword of the draft, its
\* key set is the keyword set and its size is the number of input keywords;
\* every value is in [0, 1] and readability_score is in [0, 100].
C15_DensityPerInputKeyword ==
    IsSet(optimized_post) =>
        /\ DOMAIN optimized_post.keyword_density = Range(blog_post.keywords)
        /\ Cardinality(DOMAIN optimized_post.keyword_density) = Len(blog_post.keywords)
        /\ ScoresInRange(optimized_post)

\* C15 as amended: keyword_density has one entry per distinct keyword of the
\* draft (its key set is the keyword set, so a keyword listed twice has one
\* entry); every value is in [0, 1] and readability_score is in [0, 100].
C15_DensityPerDistinctKeyword ==
    IsSet(optimized_post) =>
        /\ DOMAIN optimized_post.keyword_density = Range(blog_post.keywords)
        /\ Cardinality(DOMAIN optimized_post.keyword_density)
              = Cardinality(Range(blog_post.keywords))
        /\ Cardinality(DOMAIN optimized_post.keyword_density) <= Len(blog_post.keywords)
        /\ ScoresInRange(optimized_post)

C15_Witness ==
    /\ IsSet(optimized_post)
    /\ Len(blog_post.keywords) = 2
    /\ blog_post.keywords[1] = blog_post.keywords[2]
    /\ Cardinality(DOMAIN optimized_post.keyword_density) = 1
    /\ optimized_post.readability_score = 75

\* where the section headings and the entry headings of a content stand
HeadingPositions(content) == {i \in 1..Len(content) : content[i] = "#"}

EntryPositions(content) == {i \in 1..Len(content) : content[i] = "##"}

\* the k-th smallest member of a set of positions
Kth(positions, k) ==
    CHOOSE x \in positions : Cardinality({y \in positions : y < x}) = k - 1

\* text stands in content from position i on
TextAt(content, i, text) ==
    /\ i >= 1
    /\ i + Len(text) - 1 <= Len(content)
    /\ SubSeq(content, i, i + Len(text) - 1) = text

HasKeyPoints(section) == "key_points" \in DOMAIN section /\ section.key_points # <<>>

HasSubsections(section) == "subsections" \in DOMAIN section /\ section.subsections # <<>>

\* what a section has to be rendered: its key points or its subsections' titles
SectionEntries(section) ==
    IF HasKeyPoints(section) THEN section.key_points
    ELSE SectionTitles(section.subsections)

\* C16: the content holds exactly one block per section of the outline, in
\* outline order, a block being joined to the one before by the blank-line
\* separator (two newlines after the earlier block's own final newline);
\* every section has exactly one of key_points and subsections, and its
\* block holds one rendered entry per key point or per subsection, in order.
C16_OneBlockPerSection ==
    IsSet(blog_post) =>
        LET content == blog_post.content
            sections == outline.sections
            H == HeadingPositions(content)
            E == EntryPositions(content)
        IN /\ Cardinality(H) = Len(sections)
           /\ \A k \in 1..Len(sections) :
                  LET h == Kth(H, k)
                      next == IF k < Len(sections) THEN Kth(H, k + 1) ELSE Len(content) + 1
                      entries == SectionEntries(sections[k])
                      Ek == {e \in E : h < e /\ e < next}
                  IN /\ TextAt(content, h, <<"#", SP>> \o sections[k].title \o <<NL>>)
                     /\ k = 1 => h = 1
                     /\ k > 1 => /\ TextAt(content, h - 3, <<NL, NL, NL>>)
                                 /\ content[h - 4] \notin {SP, NL}
                     /\ HasKeyPoints(sections[k]) # HasSubsections(sections[k])
                     /\ Cardinality(Ek) = Len(entries)
                     /\ \A j \in 1..Len(entries) :
                            TextAt(content, Kth(Ek, j),
                                   <<"##", SP>> \o entries[j] \o <<NL, NL>>
                                       \o Words(<<"Content", "about">>) \o <<SP>>
                                       \o Lower(entries[j]) \o <<"...", NL>>)

C16_Witness ==
    /\ IsSet(blog_post)
    /\ Len(outline.sections) = 4
    /\ Cardinality(HeadingPositions(blog_post.content)) = 4
    /\ Cardinality(EntryPositions(blog_post.content)) = 10
    /\ outline.sections[2].title # outline.sections[3].title

(***************************************************************************)
(* Properties of repeated and of concurrent runs                           *)
(***************************************************************************)
\* C17: a call of generate_blog_post that gets the topic argument of an
\* earlier call and the same answers from the collaborators returns a result
\* equal to the earlier one in every field but generation_time, whatever
\* the calls in between left in the context.
C17_SameInputsSameResult ==
    (/\ pc = "done"
     /\ IsSet(kept)
     /\ kept.topic = topic_arg
     /\ kept.gathered = Gathered(research_data)) => result = kept.result

C17_Witness ==
    /\ pc = "done"
    /\ IsSet(kept)
    /\ kept.topic = topic_arg
    /\ kept.topic = SomeStr(Words(<<"Hybrid", "Work">>))
    /\ kept.gathered = Gathered(research_data)
    /\ kept.context.topic = <<>>
    /\ ctx.topic # <<>>
    /\ result = kept.result

\* the frame of an orchestrator's call and the context its agents see
FrameOf(orchestrator) == IF orchestrator = current THEN Frame ELSE parked

ContextSeenBy(orchestrator) ==
    IF ContextOf(orchestrator) = ContextOf(current) THEN ctx
    ELSE contexts[ContextOf(orchestrator)]

\* the context of a call that runs alone on a new orchestrator, at the
\* position of the frame: the writes of the stages that have returned, made
\* one after the other on the constructor's context
AloneContext(frame, target_word_count) ==
    LET n == Len(frame.log) \div 2
        c0 == OrchestratorContext(target_word_count)
        c1 == IF Falsy(frame.topic_arg) /\ frame.pc \notin {"idle", "research", "find_trending"}
              THEN update_context(c0, << <<"topic", find_trending_topics.title>> >>)
              ELSE c0
        c2 == IF n >= 1 THEN update_context(c1, ResearchContextUpdate(frame.research_data))
              ELSE c1
        c3 == IF n >= 2 THEN update_context(c2, PlanningContextUpdate(frame.outline)) ELSE c2
        c4 == IF n >= 3 THEN update_context(c3, GenerationContextUpdate(frame.blog_post)) ELSE c3
    IN IF n >= 4 THEN update_context(c4, SEOContextUpdate(frame.optimized_post)) ELSE c4

\* the result of a call that runs alone and gets the frame's research data
AloneResult(frame) ==
    BlogGenerationResult(SEOOptimizedPost(
        BlogPost(BlogOutline(frame.research_data), frame.research_data)))

\* C18: two calls on two orchestrators, interleaved at will at their awaits,
\* share no state: at every moment each orchestrator's context is the one
\* its own call would have made alone (no write of the other call shows in
\* it), and a finished call's result is the one it returns when run alone.
C18_NoSharedState ==
    \A o \in Orchestrators :
        /\ ContextSeenBy(o) = AloneContext(FrameOf(o), ctx.target_word_count)
        /\ FrameOf(o).pc = "done" => FrameOf(o).result = AloneResult(FrameOf(o))
        /\ FrameOf(o).pc # "done" => ~IsSet(FrameOf(o).result)

C18_Witness ==
    /\ current = 2
    /\ pc = "done"
    /\ parked.pc = "optimization"
    /\ Falsy(parked.topic_arg)
    /\ ~Falsy(topic_arg)
    /\ parked.research_data.keywords # research_data.keywords
    /\ contexts[ContextOf(1)].keywords = parked.research_data.keywords
    /\ ctx.keywords = research_data.keywords
    /\ ctx.topic = <<>>

(***************************************************************************)
(* Properties of get_generation_status and of termination                  *)
(***************************************************************************)
\* a returned status has the four keys and holds the context's values
StatusIsSnapshot ==
    IsSet(status) =>
        /\ DOMAIN status = {"topic", "keywords", "target_word_count", "metadata"}
        /\ status.topic = ctx.topic
        /\ status.keywords = ctx.keywords
        /\ status.target_word_count = ctx.target_word_count
        /\ status.metadata = ctx.metadata

\* before any call of generate_blog_post
StatusBeforeAnyRun ==
    (IsSet(status) /\ pc = "idle") =>
        /\ status.topic = <<>>
        /\ status.keywords = <<>>
        /\ status.target_word_count \in TargetWordCounts
        /\ status.metadata = None

\* the step that returns a status leaves the context and the call alone
StatusStepReadsOnly ==
    IsSet(status') =>
        UNCHANGED <<ctx, pc, topic_arg, topic_candidates, query, research_data, outline,
                    blog_post, optimized_post, result, error, log>>

\* C19: get_generation_status returns a mapping with exactly the keys
\* topic, keywords, target_word_count and metadata and the context's current
\* values, before, during and after a run (before any run: empty topic, no
\* keywords, the constructed target_word_count, no metadata), and the call
\* changes neither the context nor the progress of a run.
C19_StatusSnapshot ==
    /\ [](StatusIsSnapshot /\ StatusBeforeAnyRun)
    /\ [][StatusStepReadsOnly]_vars

C19_Witness ==
    /\ IsSet(status)
    /\ pc = "generation"
    /\ status.keywords # <<>>
    /\ status.metadata # None
    /\ status.metadata = ctx.metadata

\* a result exists exactly when the call has returned, and it is not replaced
ResultOnlyWhenDone == IsSet(result) <=> pc = "done"

ResultReturnedOnce == (IsSet(result) /\ IsSet(result')) => result' = result

\* a call suspended for ever starts no later stage and produces nothing
HungStaysHung ==
    pc = "hung" => (pc' = "hung" /\ log' = log /\ result' = result /\ ctx' = ctx)

\* C20: under a fair event loop a call of generate_blog_post whose stages
\* all return reaches Done and returns exactly one result; a call one of
\* whose stages never returns stays suspended: it never reaches Done, starts
\* no later stage and produces no result.
C20_Termination ==
    /\ (pc = "research") ~> (pc = "done" \/ pc = "hung")
    /\ [](ResultOnlyWhenDone)
    /\ [][ResultReturnedOnce /\ HungStaysHung]_vars

C20_Witness ==
    /\ pc = "done"
    /\ IsSet(result)
    /\ log = FullLog

(***************************************************************************)
(* Properties of the context's topic and of the result's independence      *)
(***************************************************************************)
\* the topic of the context changes only in the step of the Research stage
\* that selects a topic, taken when the query is None or ""
TopicWrittenOnlyOnSelection ==
    ctx'.topic # ctx.topic =>
        /\ Falsy(topic_arg)
        /\ pc = "find_trending"
        /\ pc' = "gather"
        /\ ctx'.topic = query'.s

\* no step of a call with a non-empty topic, the call itself included,
\* changes the topic of the context
TopicKeptByNamedRun == ~Falsy(topic_arg') => ctx'.topic = ctx.topic

\* what Research returns as selected_topic, and the topic a status shows
SelectedTopicOfRun ==
    /\ (~Falsy(topic_arg) /\ IsSet(research_data)) =>
           research_data.selected_topic = topic_arg.s
    /\ (Falsy(topic_arg) /\ IsSet(research_data)) =>
           research_data.selected_topic = ctx.topic
    /\ IsSet(status) => status.topic = ctx.topic

\* C21: Research writes the context's topic only when the query is None or
\* the empty string (both select a topic); in a call with a non-empty topic
\* selected_topic is that topic while the context's topic is changed neither
\* by Research nor by a later stage, so the topic a status shows is the one
\* from before the call.
C21_TopicOnlyOnSelection ==
    /\ [](SelectedTopicOfRun)
    /\ [][TopicWrittenOnlyOnSelection /\ TopicKeptByNamedRun]_vars

C21_Witness ==
    /\ pc = "done"
    /\ ~Falsy(topic_arg)
    /\ research_data.selected_topic = topic_arg.s
    /\ ctx.topic = find_trending_topics.title
    /\ ctx.topic # topic_arg.s
    /\ IsSet(status)
    /\ status.topic = ctx.topic

\* the topic Research works on in a call, whatever the context holds
TopicOfRun == IF Falsy(topic_arg) THEN find_trending_topics.title ELSE topic_arg.s

\* C22: the result of a call does not depend on the context: it is made
\* from the topic argument and the collaborators' answers alone, each stage
\* taking its input from the stage before, so a call equals in every field
\* but generation_time an earlier call with the same topic argument and
\* answers, whatever topic, keywords, metadata and target_word_count the two
\* contexts held.
C22_ResultIgnoresContext ==
    pc = "done" =>
        /\ research_data.selected_topic = TopicOfRun
        /\ outline = BlogOutline(research_data)
        /\ blog_post = BlogPost(outline, research_data)
        /\ optimized_post = SEOOptimizedPost(blog_post)
        /\ result = BlogGenerationResult(optimized_post)
        /\ (/\ IsSet(kept)
            /\ kept.topic = topic_arg
            /\ kept.gathered = Gathered(research_data)) => kept.result = result

C22_Witness ==
    /\ pc = "done"
    /\ IsSet(kept)
    /\ ~Falsy(topic_arg)
    /\ kept.topic = topic_arg
    /\ kept.gathered = Gathered(research_data)
    /\ kept.context.target_word_count # ctx.target_word_count
    /\ kept.context.topic # ctx.topic
    /\ kept.result = result
====
